---- MODULE Spec2Model ----
(***************************************************************************)
(* A model of the banking ledger core: the Money value object, the Account *)
(* and Transaction entities, the AccountService domain service and the     *)
(* TransactionApplicationService use cases over the two stores.            *)
(*                                                                         *)
(* Numbers.  A JavaScript number is modelled as a record                   *)
(*   [k |-> "fin", v |-> n]   the finite number n / 1000 (n in mills),     *)
(*   [k |-> "nan", v |-> 0]   NaN,                                         *)
(*   [k |-> "inf", v |-> s]   +Infinity (s = 1) or -Infinity (s = -1).     *)
(* One cent is 10 mills, so a raw input can carry a third decimal and      *)
(* Money's rounding to cents is a real conversion.  Binary rounding error  *)
(* of finite doubles is not modelled.                                      *)
(***************************************************************************)
EXTENDS Integers, Sequences, FiniteSets, TLC

VARIABLES
    now,        \* the wall clock read by `new Date()`
    acct,       \* SpecAccount: one in-memory Account object
    res,        \* SpecAccount: the last Account call and its outcome
    txn,        \* SpecTxn: one in-memory Transaction object (or NoTxn)
    tres,       \* SpecTxn: the last Transaction call and its outcome
    nextId,     \* how many identifiers uuidv4() has handed out
    mem,        \* SpecService: the in-memory Account objects, by handle
    sres,       \* SpecService: the last AccountService call and its outcome
    accounts,   \* SpecLedger: the documents of the account collection
    transactions, \* SpecLedger: the documents of the transaction collection
    ures,       \* SpecLedger: the last use case and its outcome
    money,      \* SpecMoney: one Money value
    mres,       \* SpecMoney: the last Money call and its outcome
    stres,      \* SpecStore: the last store call and its outcome
    procs       \* SpecConcurrent: the use cases in progress, by process

vars == <<now, acct, res, txn, tres, nextId, mem, sres, accounts, transactions, ures,
          money, mres, stres, procs>>

----------------------------------------------------------------------------
(* Bounds of the model *)

\* largest finite raw amount offered to an operation, in mills
MaxAmount == 25
\* largest finite balance an account is let to reach, in mills
MaxBalance == 30
\* the clock stops advancing here
MaxTime == 2
\* how many Transaction objects SpecTxn constructs one after the other
MaxTxnObjects == 1
\* how many AccountService calls SpecService makes one after the other
MaxCalls == 2
\* how many identifiers uuidv4() hands out in SpecLedger
MaxIds == 4
\* how many save calls SpecStore makes on the two stores
MaxSaves == 2

----------------------------------------------------------------------------
(* JavaScript numbers *)

Fin(n) == [k |-> "fin", v |-> n]
NaN == [k |-> "nan", v |-> 0]
PosInf == [k |-> "inf", v |-> 1]
NegInf == [k |-> "inf", v |-> -1]
Zero == Fin(0)

IsNaN(x) == x.k = "nan"
IsFin(x) == x.k = "fin"

\* position of a non-NaN number among -Infinity < finite < +Infinity
Cls(x) == IF x.k = "inf" THEN x.v ELSE 0

\* x < y, false when either side is NaN
Lt(x, y) ==
    /\ ~IsNaN(x)
    /\ ~IsNaN(y)
    /\ \/ Cls(x) < Cls(y)
       \/ Cls(x) = 0 /\ Cls(y) = 0 /\ x.v < y.v

\* x <= y, false when either side is NaN
Le(x, y) == ~IsNaN(x) /\ ~IsNaN(y) /\ (Lt(x, y) \/ x = y)

Gt(x, y) == Lt(y, x)
Ge(x, y) == Le(y, x)

Neg(x) ==
    CASE x.k = "fin" -> Fin(-x.v)
      [] x.k = "inf" -> [k |-> "inf", v |-> -x.v]
      [] OTHER -> NaN

\* x + y: NaN is absorbing, Infinity + -Infinity is NaN
Plus(x, y) ==
    CASE IsNaN(x) \/ IsNaN(y) -> NaN
      [] x.k = "inf" /\ y.k = "inf" -> IF x.v = y.v THEN x ELSE NaN
      [] x.k = "inf" -> x
      [] y.k = "inf" -> y
      [] OTHER -> Fin(x.v + y.v)

Minus(x, y) == Plus(x, Neg(y))

\* Math.round(n / 10) on mills: to the nearest cent, a half towards +Infinity
RoundCents(n) == (n + 5) \div 10

----------------------------------------------------------------------------
(* Money: src/domain/valueObjects/money.ts *)

\* Money with Math.floor in place of Math.round
Money_floors(x) == IF IsFin(x) THEN Fin((x.v \div 10) * 10) ELSE x

\* new Money(value).value
Money(x) == IF IsFin(x) THEN Fin(RoundCents(x.v) * 10) ELSE x

Money_add(a, b) == Money(Plus(a, b))

Money_subtract(a, b) == Money(Minus(a, b))

----------------------------------------------------------------------------
(* Account: src/domain/entities/account.ts *)

NoError == "none"
ErrDepositAmount == "Deposit amount must be positive"
ErrWithdrawAmount == "Withdrawal amount must be positive"
ErrInsufficient == "Insufficient funds"

\* new Account(name, balance, id, createdAt, updatedAt) with every argument given
Account(name, balance, id, createdAt, updatedAt) ==
    [id |-> id, name |-> name, balance |-> balance,
     createdAt |-> createdAt, updatedAt |-> updatedAt]

\* Account_deposit with the sum computed and dropped: Money is immutable, and
\* `this._balance.add(amount)` alone assigns nothing
Account_deposit_dropsSum(a, amount, t) ==
    IF Le(amount, Zero)
    THEN [acct |-> a, err |-> ErrDepositAmount]
    ELSE [acct |-> [a EXCEPT !.updatedAt = t], err |-> NoError]

\* Account_deposit with the guard `amount.value < 0`: a zero deposit goes through
Account_deposit_acceptsZero(a, amount, t) ==
    IF Lt(amount, Zero)
    THEN [acct |-> a, err |-> ErrDepositAmount]
    ELSE [acct |-> [a EXCEPT !.balance = Money_add(a.balance, amount),
                             !.updatedAt = t],
          err |-> NoError]

\* account.deposit(amount) at time t: the account afterwards and the error thrown
Account_deposit(a, amount, t) ==
    IF Le(amount, Zero)
    THEN [acct |-> a, err |-> ErrDepositAmount]
    ELSE [acct |-> [a EXCEPT !.balance = Money_add(a.balance, amount),
                             !.updatedAt = t],
          err |-> NoError]

\* Account_withdraw without the balance check
Account_withdraw_noFundsCheck(a, amount, t) ==
    IF Le(amount, Zero)
    THEN [acct |-> a, err |-> ErrWithdrawAmount]
    ELSE [acct |-> [a EXCEPT !.balance = Money_subtract(a.balance, amount),
                             !.updatedAt = t],
          err |-> NoError]

\* Account_withdraw giving a new Account(name, balance, id), whose createdAt
\* is the time of the call
Account_withdraw_rebuilds(a, amount, t) ==
    IF Le(amount, Zero)
    THEN [acct |-> a, err |-> ErrWithdrawAmount]
    ELSE IF Lt(a.balance, amount)
    THEN [acct |-> a, err |-> ErrInsufficient]
    ELSE [acct |-> Account(a.name, Money_subtract(a.balance, amount), a.id, t, t),
          err |-> NoError]

\* account.withdraw(amount) at time t
Account_withdraw(a, amount, t) ==
    IF Le(amount, Zero)
    THEN [acct |-> a, err |-> ErrWithdrawAmount]
    ELSE IF Lt(a.balance, amount)
    THEN [acct |-> a, err |-> ErrInsufficient]
    ELSE [acct |-> [a EXCEPT !.balance = Money_subtract(a.balance, amount),
                             !.updatedAt = t],
          err |-> NoError]

\* Account_canWithdraw with `>` for `>=`: the whole balance cannot be withdrawn
Account_canWithdraw_strict(a, amount) == Gt(amount, Zero) /\ Gt(a.balance, amount)

\* account.canWithdraw(amount)
Account_canWithdraw(a, amount) == Gt(amount, Zero) /\ Ge(a.balance, amount)

----------------------------------------------------------------------------
(* Transaction: src/domain/entities/transaction.ts *)

DEPOSIT == "DEPOSIT"
WITHDRAWAL == "WITHDRAWAL"
TRANSFER == "TRANSFER"
TransactionType == {DEPOSIT, WITHDRAWAL, TRANSFER}

PENDING == "PENDING"
COMPLETED == "COMPLETED"
FAILED == "FAILED"
TransactionStatus == {PENDING, COMPLETED, FAILED}

\* the null account reference, distinct from every string, the empty one included
Null == "<null>"

\* JavaScript truthiness of a `string | null`: null and '' are falsy
Truthy(s) == s # Null /\ s # ""

ErrAmount == "Transaction amount must be positive"
ErrDepositNoTarget == "Deposit transaction must have a target account"
ErrDepositSource == "Deposit transaction should not have a source account"
ErrWithdrawNoSource == "Withdrawal transaction must have a source account"
ErrWithdrawTarget == "Withdrawal transaction should not have a target account"
ErrTransferBoth == "Transfer transaction must have both source and target accounts"
ErrTransferSame == "Transfer source and target accounts cannot be the same"
ErrType == "Invalid transaction type"

\* the messages the specification groups as InvalidTransactionShape
InvalidTransactionShape ==
    {ErrAmount, ErrDepositNoTarget, ErrDepositSource, ErrWithdrawNoSource,
     ErrWithdrawTarget, ErrTransferBoth, ErrTransferSame, ErrType}

\* the messages the specification groups as InvalidAmount
InvalidAmount == {ErrDepositAmount, ErrWithdrawAmount}

\* no Transaction object
NoTxn ==
    [id |-> "", type |-> "", amount |-> Zero, fromAccountId |-> Null,
     toAccountId |-> Null, description |-> "", status |-> "", createdAt |-> 0]

\* validateTransaction without the source = target check of a TRANSFER
validateTransaction_allowsSelfTransfer(t) ==
    IF Le(t.amount, Zero) THEN ErrAmount
    ELSE CASE t.type = DEPOSIT ->
                IF ~Truthy(t.toAccountId) THEN ErrDepositNoTarget
                ELSE IF Truthy(t.fromAccountId) THEN ErrDepositSource
                ELSE NoError
           [] t.type = WITHDRAWAL ->
                IF ~Truthy(t.fromAccountId) THEN ErrWithdrawNoSource
                ELSE IF Truthy(t.toAccountId) THEN ErrWithdrawTarget
                ELSE NoError
           [] t.type = TRANSFER ->
                IF ~Truthy(t.fromAccountId) \/ ~Truthy(t.toAccountId)
                THEN ErrTransferBoth
                ELSE NoError
           [] OTHER -> ErrType

\* validateTransaction(): the message of the error thrown, or NoError
validateTransaction(t) ==
    IF Le(t.amount, Zero) THEN ErrAmount
    ELSE CASE t.type = DEPOSIT ->
                IF ~Truthy(t.toAccountId) THEN ErrDepositNoTarget
                ELSE IF Truthy(t.fromAccountId) THEN ErrDepositSource
                ELSE NoError
           [] t.type = WITHDRAWAL ->
                IF ~Truthy(t.fromAccountId) THEN ErrWithdrawNoSource
                ELSE IF Truthy(t.toAccountId) THEN ErrWithdrawTarget
                ELSE NoError
           [] t.type = TRANSFER ->
                IF ~Truthy(t.fromAccountId) \/ ~Truthy(t.toAccountId)
                THEN ErrTransferBoth
                ELSE IF t.fromAccountId = t.toAccountId THEN ErrTransferSame
                ELSE NoError
           [] OTHER -> ErrType

\* Transaction storing the two references in each other's place
Transaction_swapsRefs(type, amount, fromAccountId, toAccountId, description, status, id, createdAt) ==
    LET t == [id |-> id, type |-> type, amount |-> amount,
              fromAccountId |-> fromAccountId, toAccountId |-> toAccountId,
              description |-> description, status |-> status,
              createdAt |-> createdAt]
        e == validateTransaction(t)
    IN  IF e = NoError
        THEN [txn |-> [t EXCEPT !.fromAccountId = toAccountId,
                                !.toAccountId = fromAccountId],
              err |-> NoError]
        ELSE [txn |-> NoTxn, err |-> e]

\* new Transaction(type, amount, from, to, description, status, id, createdAt):
\* the object that results (NoTxn when the constructor throws) and the error
Transaction(type, amount, fromAccountId, toAccountId, description, status, id, createdAt) ==
    LET t == [id |-> id, type |-> type, amount |-> amount,
              fromAccountId |-> fromAccountId, toAccountId |-> toAccountId,
              description |-> description, status |-> status,
              createdAt |-> createdAt]
        e == validateTransaction(t)
    IN  IF e = NoError THEN [txn |-> t, err |-> NoError]
        ELSE [txn |-> NoTxn, err |-> e]

\* Transaction_complete guarded: only a PENDING Transaction is completed
Transaction_complete_fromPending(t) ==
    IF t.status = PENDING THEN [t EXCEPT !.status = COMPLETED] ELSE t

\* transaction.complete()
Transaction_complete(t) == [t EXCEPT !.status = COMPLETED]

\* Transaction_fail clearing the target reference as well
Transaction_fail_clearsTarget(t) == [t EXCEPT !.status = FAILED, !.toAccountId = Null]

\* transaction.fail()
Transaction_fail(t) == [t EXCEPT !.status = FAILED]

----------------------------------------------------------------------------
(* AccountService: src/domain/services/accountService.ts *)
(* Each operator gives the account(s) after the call, the Transaction      *)
(* object as the call leaves it (NoTxn when its constructor threw), the     *)
(* Transaction returned (NoTxn when the call throws), the error thrown to   *)
(* the caller, and `cause`, the error the try block raised.                 *)

\* AccountService_withdraw with a catch block that rethrows without fail()
AccountService_withdraw_noFail(account, amount, description, id, t) ==
    LET c == Transaction(WITHDRAWAL, amount, account.id, Null, description,
                         PENDING, id, t)
        m == IF ~Account_canWithdraw(account, amount)
             THEN [acct |-> account, err |-> ErrInsufficient]
             ELSE Account_withdraw(account, amount, t)
    IN  IF c.err # NoError
        THEN [account |-> account, txn |-> NoTxn, ret |-> NoTxn,
              err |-> c.err, cause |-> NoError]
        ELSE IF m.err = NoError
        THEN [account |-> m.acct, txn |-> Transaction_complete(c.txn),
              ret |-> Transaction_complete(c.txn), err |-> NoError,
              cause |-> NoError]
        ELSE [account |-> m.acct, txn |-> c.txn, ret |-> NoTxn,
              err |-> m.err, cause |-> m.err]

\* accountService.deposit(account, amount, description)
AccountService_deposit(account, amount, description, id, t) ==
    LET c == Transaction(DEPOSIT, amount, Null, account.id, description,
                         PENDING, id, t)
        m == Account_deposit(account, amount, t)
    IN  IF c.err # NoError
        THEN [account |-> account, txn |-> NoTxn, ret |-> NoTxn,
              err |-> c.err, cause |-> NoError]
        ELSE IF m.err = NoError
        THEN [account |-> m.acct, txn |-> Transaction_complete(c.txn),
              ret |-> Transaction_complete(c.txn), err |-> NoError,
              cause |-> NoError]
        ELSE [account |-> m.acct, txn |-> Transaction_fail(c.txn),
              ret |-> NoTxn, err |-> m.err, cause |-> m.err]

\* accountService.withdraw(account, amount, description)
AccountService_withdraw(account, amount, description, id, t) ==
    LET c == Transaction(WITHDRAWAL, amount, account.id, Null, description,
                         PENDING, id, t)
        m == IF ~Account_canWithdraw(account, amount)
             THEN [acct |-> account, err |-> ErrInsufficient]
             ELSE Account_withdraw(account, amount, t)
    IN  IF c.err # NoError
        THEN [account |-> account, txn |-> NoTxn, ret |-> NoTxn,
              err |-> c.err, cause |-> NoError]
        ELSE IF m.err = NoError
        THEN [account |-> m.acct, txn |-> Transaction_complete(c.txn),
              ret |-> Transaction_complete(c.txn), err |-> NoError,
              cause |-> NoError]
        ELSE [account |-> m.acct, txn |-> Transaction_fail(c.txn),
              ret |-> NoTxn, err |-> m.err, cause |-> m.err]

\* AccountService_transferStep with the target credited before the funds check
AccountService_transferStep_depositsFirst(fromAccount, toAccount, amount, t) ==
    LET d == Account_deposit(toAccount, amount, t)
        w == Account_withdraw(fromAccount, amount, t)
    IN  IF d.err # NoError
        THEN [from |-> fromAccount, to |-> toAccount, err |-> d.err]
        ELSE IF ~Account_canWithdraw(fromAccount, amount)
        THEN [from |-> fromAccount, to |-> d.acct, err |-> ErrInsufficient]
        ELSE [from |-> w.acct, to |-> d.acct, err |-> w.err]

\* the try block of transfer: canWithdraw, fromAccount.withdraw, then
\* toAccount.deposit, stopping at the first error.  The two accounts are two
\* objects: one object passed twice has from.id = to.id, for which the
\* constructor has thrown before the try block is entered.
AccountService_transferStep(fromAccount, toAccount, amount, t) ==
    IF ~Account_canWithdraw(fromAccount, amount)
    THEN [from |-> fromAccount, to |-> toAccount, err |-> ErrInsufficient]
    ELSE LET w == Account_withdraw(fromAccount, amount, t)
             d == Account_deposit(toAccount, amount, t)
         IN  IF w.err # NoError
             THEN [from |-> w.acct, to |-> toAccount, err |-> w.err]
             ELSE [from |-> w.acct, to |-> d.acct, err |-> d.err]

\* AccountService_transfer with the accounts mutated before the Transaction
\* is constructed
AccountService_transfer_mutatesFirst(fromAccount, toAccount, amount, description, id, t) ==
    LET c == Transaction(TRANSFER, amount, fromAccount.id, toAccount.id,
                         description, PENDING, id, t)
        m == AccountService_transferStep(fromAccount, toAccount, amount, t)
    IN  IF c.err # NoError
        THEN [from |-> m.from, to |-> m.to, txn |-> NoTxn,
              ret |-> NoTxn, err |-> c.err, cause |-> NoError]
        ELSE IF m.err = NoError
        THEN [from |-> m.from, to |-> m.to,
              txn |-> Transaction_complete(c.txn),
              ret |-> Transaction_complete(c.txn), err |-> NoError,
              cause |-> NoError]
        ELSE [from |-> m.from, to |-> m.to, txn |-> Transaction_fail(c.txn),
              ret |-> NoTxn, err |-> m.err, cause |-> m.err]

\* accountService.transfer(fromAccount, toAccount, amount, description)
AccountService_transfer(fromAccount, toAccount, amount, description, id, t) ==
    LET c == Transaction(TRANSFER, amount, fromAccount.id, toAccount.id,
                         description, PENDING, id, t)
        m == AccountService_transferStep(fromAccount, toAccount, amount, t)
    IN  IF c.err # NoError
        THEN [from |-> fromAccount, to |-> toAccount, txn |-> NoTxn,
              ret |-> NoTxn, err |-> c.err, cause |-> NoError]
        ELSE IF m.err = NoError
        THEN [from |-> m.from, to |-> m.to,
              txn |-> Transaction_complete(c.txn),
              ret |-> Transaction_complete(c.txn), err |-> NoError,
              cause |-> NoError]
        ELSE [from |-> m.from, to |-> m.to, txn |-> Transaction_fail(c.txn),
              ret |-> NoTxn, err |-> m.err, cause |-> m.err]

----------------------------------------------------------------------------
(* The stores: src/infrastructure/schemas and src/infrastructure/repositories *)
(* A collection is a set of documents; `_id` is the storage key, the count  *)
(* of documents inserted before plus one, and `uuid` the domain identifier. *)

ErrValidation == "ValidationError"

\* no Account object: findById's null
NoAccount == Account("", Zero, "", 0, 0)

\* the documents of a collection whose uuid is id
WithUuid(docs, id) == {d \in docs : d.uuid = id}

\* Model.findOne({ uuid: id }): the matching document stored first
findOne(docs, id) == CHOOSE d \in WithUuid(docs, id) : \A e \in WithUuid(docs, id) : d._id <= e._id

\* the schemas' `trim: true` on the strings the model offers:
\* String.prototype.trim removes the white space at both ends
Trim(str) ==
    CASE str = " Bob " -> "Bob"
      [] str = " rent " -> "rent"
      [] str = "  " -> ""
      [] OTHER -> str

\* AccountSchema without the validators on balance: any number is stored
AccountSchema_valid_anyBalance(name, balance, uuid) ==
    /\ name # ""
    /\ uuid # ""

\* the AccountSchema validators on { name, balance, uuid }: name and uuid are
\* required, the balance must cast to a number (NaN does not) and be >= 0
AccountSchema_valid(name, balance, uuid) ==
    /\ name # ""
    /\ uuid # ""
    /\ ~IsNaN(balance)
    /\ Ge(balance, Zero)

\* accountRepository.mapToEntity(doc)
AccountRepository_mapToEntity(doc) ==
    Account(doc.name, Money(doc.balance), doc.uuid, doc.createdAt, doc.updatedAt)

\* accountRepository.findById(id)
AccountRepository_findById(docs, id) ==
    IF WithUuid(docs, id) = {} THEN NoAccount
    ELSE AccountRepository_mapToEntity(findOne(docs, id))

\* AccountRepository_save without the findOne: every save inserts
AccountRepository_save_alwaysInserts(docs, account, t) ==
    LET valid == AccountSchema_valid(Trim(account.name), account.balance, account.id)
        new == [_id |-> Cardinality(docs) + 1, uuid |-> account.id,
                name |-> Trim(account.name), balance |-> account.balance,
                createdAt |-> t, updatedAt |-> t]
    IN  IF ~valid THEN [docs |-> docs, ret |-> NoAccount, err |-> ErrValidation]
        ELSE [docs |-> docs \cup {new},
              ret |-> AccountRepository_mapToEntity(new), err |-> NoError]

\* AccountRepository_save whose update leaves the stored balance out
AccountRepository_save_keepsBalance(docs, account, t) ==
    LET valid == AccountSchema_valid(Trim(account.name), account.balance, account.id)
        invalid == [docs |-> docs, ret |-> NoAccount, err |-> ErrValidation]
    IN  IF WithUuid(docs, account.id) # {}
        THEN LET old == findOne(docs, account.id)
                 new == [old EXCEPT !.name = Trim(account.name),
                                    !.uuid = account.id,
                                    !.updatedAt = t]
             IN  IF ~valid THEN invalid
                 ELSE [docs |-> (docs \ {old}) \cup {new},
                       ret |-> AccountRepository_mapToEntity(new),
                       err |-> NoError]
        ELSE LET new == [_id |-> Cardinality(docs) + 1, uuid |-> account.id,
                         name |-> Trim(account.name), balance |-> account.balance,
                         createdAt |-> t, updatedAt |-> t]
             IN  IF ~valid THEN invalid
                 ELSE [docs |-> docs \cup {new},
                       ret |-> AccountRepository_mapToEntity(new),
                       err |-> NoError]

\* accountRepository.save(account) at time t: the collection afterwards, the
\* Account returned and the error thrown.  `timestamps: true` sets createdAt
\* and updatedAt on insert and updatedAt on update.
AccountRepository_save(docs, account, t) ==
    LET valid == AccountSchema_valid(Trim(account.name), account.balance, account.id)
        invalid == [docs |-> docs, ret |-> NoAccount, err |-> ErrValidation]
    IN  IF WithUuid(docs, account.id) # {}
        THEN LET old == findOne(docs, account.id)
                 new == [old EXCEPT !.name = Trim(account.name),
                                    !.balance = account.balance,
                                    !.uuid = account.id,
                                    !.updatedAt = t]
             IN  IF ~valid THEN invalid
                 ELSE [docs |-> (docs \ {old}) \cup {new},
                       ret |-> AccountRepository_mapToEntity(new),
                       err |-> NoError]
        ELSE LET new == [_id |-> Cardinality(docs) + 1, uuid |-> account.id,
                         name |-> Trim(account.name), balance |-> account.balance,
                         createdAt |-> t, updatedAt |-> t]
             IN  IF ~valid THEN invalid
                 ELSE [docs |-> docs \cup {new},
                       ret |-> AccountRepository_mapToEntity(new),
                       err |-> NoError]

\* the TransactionSchema validators: type and status in their enums, the
\* amount a number >= 0.01, description and uuid required
TransactionSchema_valid(t) ==
    /\ t.type \in TransactionType
    /\ t.status \in TransactionStatus
    /\ ~IsNaN(t.amount)
    /\ Ge(t.amount, Fin(10))
    /\ Trim(t.description) # ""
    /\ t.id # ""

\* transactionRepository.mapToEntity(doc): the constructor runs again
TransactionRepository_mapToEntity(doc) ==
    Transaction(doc.type, Money(doc.amount), doc.fromAccountId, doc.toAccountId,
                doc.description, doc.status, doc.uuid, doc.createdAt)

\* transactionRepository.findById(id)
TransactionRepository_findById(docs, id) ==
    IF WithUuid(docs, id) = {} THEN [txn |-> NoTxn, err |-> NoError]
    ELSE TransactionRepository_mapToEntity(findOne(docs, id))

\* transactionRepository.save(transaction) at time t
TransactionRepository_save(docs, t0, t) ==
    LET valid == TransactionSchema_valid(t0)
        invalid == [docs |-> docs, ret |-> NoTxn, err |-> ErrValidation]
    IN  IF WithUuid(docs, t0.id) # {}
        THEN LET old == findOne(docs, t0.id)
                 new == [old EXCEPT !.type = t0.type, !.amount = t0.amount,
                                    !.fromAccountId = t0.fromAccountId,
                                    !.toAccountId = t0.toAccountId,
                                    !.description = Trim(t0.description),
                                    !.status = t0.status, !.uuid = t0.id,
                                    !.updatedAt = t]
                 e == TransactionRepository_mapToEntity(new)
             IN  IF ~valid THEN invalid
                 ELSE [docs |-> (docs \ {old}) \cup {new}, ret |-> e.txn,
                       err |-> e.err]
        ELSE LET new == [_id |-> Cardinality(docs) + 1, uuid |-> t0.id,
                         type |-> t0.type, amount |-> t0.amount,
                         fromAccountId |-> t0.fromAccountId,
                         toAccountId |-> t0.toAccountId,
                         description |-> Trim(t0.description), status |-> t0.status,
                         createdAt |-> t, updatedAt |-> t]
                 e == TransactionRepository_mapToEntity(new)
             IN  IF ~valid THEN invalid
                 ELSE [docs |-> docs \cup {new}, ret |-> e.txn, err |-> e.err]

----------------------------------------------------------------------------
(* The use cases: src/application/services *)
(* Each operator gives the two collections after the use case, the error it *)
(* throws, the DTO it returns, the Account objects as findById loaded them   *)
(* (`loaded`) and as the use case leaves them (`objs`), and whether the      *)
(* Transaction constructor ran (`drewId`: it draws an identifier).           *)

ErrAccountNotFound == "Account with ID ${accountId} not found"
ErrSourceNotFound == "Source account with ID ${fromAccountId} not found"
ErrTargetNotFound == "Target account with ID ${toAccountId} not found"

\* the messages the specification groups as AccountNotFound
AccountNotFound == {ErrAccountNotFound, ErrSourceNotFound, ErrTargetNotFound}

UseCase(accs, txns, err, ret, loaded, objs, drewId) ==
    [accounts |-> accs, transactions |-> txns, err |-> err, ret |-> ret,
     loaded |-> loaded, objs |-> objs, drewId |-> drewId]

\* AccountApplicationService_createAccount giving every account one identifier
AccountApplicationService_createAccount_reusesId(accs, txns, name, id, t) ==
    LET account == Account(name, Money(Zero), "u1", t, t)
        s == AccountRepository_save(accs, account, t)
    IN  UseCase(s.docs, txns, s.err, NoTxn, <<>>, <<account>>, TRUE)

\* accountApplicationService.createAccount(name)
AccountApplicationService_createAccount(accs, txns, name, id, t) ==
    LET account == Account(name, Money(Zero), id, t, t)
        s == AccountRepository_save(accs, account, t)
    IN  UseCase(s.docs, txns, s.err, NoTxn, <<>>, <<account>>, TRUE)

\* TransactionApplicationService_deposit without accountRepository.save
TransactionApplicationService_deposit_skipsAccountSave(accs, txns, accountId, raw, description, id, t) ==
    LET account == AccountRepository_findById(accs, accountId)
        r == AccountService_deposit(account, Money(raw), description, id, t)
        s2 == TransactionRepository_save(txns, r.ret, t)
    IN  IF account = NoAccount
        THEN UseCase(accs, txns, ErrAccountNotFound, NoTxn, <<account>>, <<account>>, FALSE)
        ELSE IF r.err # NoError
        THEN UseCase(accs, txns, r.err, NoTxn, <<account>>, <<r.account>>, TRUE)
        ELSE UseCase(accs, s2.docs, s2.err, s2.ret, <<account>>, <<r.account>>, TRUE)

\* transactionApplicationService.deposit(accountId, amount, description)
TransactionApplicationService_deposit(accs, txns, accountId, raw, description, id, t) ==
    LET account == AccountRepository_findById(accs, accountId)
        r == AccountService_deposit(account, Money(raw), description, id, t)
        s1 == AccountRepository_save(accs, r.account, t)
        s2 == TransactionRepository_save(txns, r.ret, t)
    IN  IF account = NoAccount
        THEN UseCase(accs, txns, ErrAccountNotFound, NoTxn, <<account>>, <<account>>, FALSE)
        ELSE IF r.err # NoError
        THEN UseCase(accs, txns, r.err, NoTxn, <<account>>, <<r.account>>, TRUE)
        ELSE IF s1.err # NoError
        THEN UseCase(s1.docs, txns, s1.err, NoTxn, <<account>>, <<r.account>>, TRUE)
        ELSE UseCase(s1.docs, s2.docs, s2.err, s2.ret, <<account>>, <<r.account>>, TRUE)

\* TransactionApplicationService_withdraw without accountRepository.save
TransactionApplicationService_withdraw_skipsAccountSave(accs, txns, accountId, raw, description, id, t) ==
    LET account == AccountRepository_findById(accs, accountId)
        r == AccountService_withdraw(account, Money(raw), description, id, t)
        s2 == TransactionRepository_save(txns, r.ret, t)
    IN  IF account = NoAccount
        THEN UseCase(accs, txns, ErrAccountNotFound, NoTxn, <<account>>, <<account>>, FALSE)
        ELSE IF r.err # NoError
        THEN UseCase(accs, txns, r.err, NoTxn, <<account>>, <<r.account>>, TRUE)
        ELSE UseCase(accs, s2.docs, s2.err, s2.ret, <<account>>, <<r.account>>, TRUE)

\* transactionApplicationService.withdraw(accountId, amount, description)
TransactionApplicationService_withdraw(accs, txns, accountId, raw, description, id, t) ==
    LET account == AccountRepository_findById(accs, accountId)
        r == AccountService_withdraw(account, Money(raw), description, id, t)
        s1 == AccountRepository_save(accs, r.account, t)
        s2 == TransactionRepository_save(txns, r.ret, t)
    IN  IF account = NoAccount
        THEN UseCase(accs, txns, ErrAccountNotFound, NoTxn, <<account>>, <<account>>, FALSE)
        ELSE IF r.err # NoError
        THEN UseCase(accs, txns, r.err, NoTxn, <<account>>, <<r.account>>, TRUE)
        ELSE IF s1.err # NoError
        THEN UseCase(s1.docs, txns, s1.err, NoTxn, <<account>>, <<r.account>>, TRUE)
        ELSE UseCase(s1.docs, s2.docs, s2.err, s2.ret, <<account>>, <<r.account>>, TRUE)

\* TransactionApplicationService_transfer without the save of toAccount
TransactionApplicationService_transfer_savesSourceOnly(accs, txns, fromAccountId, toAccountId, raw, description, id, t) ==
    LET fromAccount == AccountRepository_findById(accs, fromAccountId)
        toAccount == AccountRepository_findById(accs, toAccountId)
        r == AccountService_transfer(fromAccount, toAccount, Money(raw),
                                     description, id, t)
        s1 == AccountRepository_save(accs, r.from, t)
        s3 == TransactionRepository_save(txns, r.ret, t)
        loaded == <<fromAccount, toAccount>>
    IN  IF fromAccount = NoAccount
        THEN UseCase(accs, txns, ErrSourceNotFound, NoTxn, loaded, loaded, FALSE)
        ELSE IF toAccount = NoAccount
        THEN UseCase(accs, txns, ErrTargetNotFound, NoTxn, loaded, loaded, FALSE)
        ELSE IF r.err # NoError
        THEN UseCase(accs, txns, r.err, NoTxn, loaded, <<r.from, r.to>>, TRUE)
        ELSE IF s1.err # NoError
        THEN UseCase(s1.docs, txns, s1.err, NoTxn, loaded, <<r.from, r.to>>, TRUE)
        ELSE UseCase(s1.docs, s3.docs, s3.err, s3.ret, loaded, <<r.from, r.to>>, TRUE)

\* TransactionApplicationService_transfer without its `if (!toAccount)` check
TransactionApplicationService_transfer_noTargetCheck(accs, txns, fromAccountId, toAccountId, raw, description, id, t) ==
    LET fromAccount == AccountRepository_findById(accs, fromAccountId)
        toAccount == AccountRepository_findById(accs, toAccountId)
        r == AccountService_transfer(fromAccount, toAccount, Money(raw),
                                     description, id, t)
        s1 == AccountRepository_save(accs, r.from, t)
        s2 == AccountRepository_save(s1.docs, r.to, t)
        s3 == TransactionRepository_save(txns, r.ret, t)
        loaded == <<fromAccount, toAccount>>
    IN  IF fromAccount = NoAccount
        THEN UseCase(accs, txns, ErrSourceNotFound, NoTxn, loaded, loaded, FALSE)
        ELSE IF r.err # NoError
        THEN UseCase(accs, txns, r.err, NoTxn, loaded, <<r.from, r.to>>, TRUE)
        ELSE IF s1.err # NoError
        THEN UseCase(s1.docs, txns, s1.err, NoTxn, loaded, <<r.from, r.to>>, TRUE)
        ELSE IF s2.err # NoError
        THEN UseCase(s2.docs, txns, s2.err, NoTxn, loaded, <<r.from, r.to>>, TRUE)
        ELSE UseCase(s2.docs, s3.docs, s3.err, s3.ret, loaded, <<r.from, r.to>>, TRUE)

\* transactionApplicationService.transfer(fromAccountId, toAccountId, amount,
\* description): the two findById calls give two objects, also for one id
TransactionApplicationService_transfer(accs, txns, fromAccountId, toAccountId, raw, description, id, t) ==
    LET fromAccount == AccountRepository_findById(accs, fromAccountId)
        toAccount == AccountRepository_findById(accs, toAccountId)
        r == AccountService_transfer(fromAccount, toAccount, Money(raw),
                                     description, id, t)
        s1 == AccountRepository_save(accs, r.from, t)
        s2 == AccountRepository_save(s1.docs, r.to, t)
        s3 == TransactionRepository_save(txns, r.ret, t)
        loaded == <<fromAccount, toAccount>>
    IN  IF fromAccount = NoAccount
        THEN UseCase(accs, txns, ErrSourceNotFound, NoTxn, loaded, loaded, FALSE)
        ELSE IF toAccount = NoAccount
        THEN UseCase(accs, txns, ErrTargetNotFound, NoTxn, loaded, loaded, FALSE)
        ELSE IF r.err # NoError
        THEN UseCase(accs, txns, r.err, NoTxn, loaded, <<r.from, r.to>>, TRUE)
        ELSE IF s1.err # NoError
        THEN UseCase(s1.docs, txns, s1.err, NoTxn, loaded, <<r.from, r.to>>, TRUE)
        ELSE IF s2.err # NoError
        THEN UseCase(s2.docs, txns, s2.err, NoTxn, loaded, <<r.from, r.to>>, TRUE)
        ELSE UseCase(s2.docs, s3.docs, s3.err, s3.ret, loaded, <<r.from, r.to>>, TRUE)

----------------------------------------------------------------------------
(* Identifiers and inputs *)

\* the identifiers uuidv4() hands out, in order; no two are equal
Uuids == <<"u1", "u2", "u3", "u4", "u5", "u6">>

\* uuidv4() when n identifiers were handed out before
uuidv4(n) == Uuids[n + 1]

\* the raw numbers a caller can pass to `new Money(...)`
RawAmounts == {Fin(n) : n \in (-MaxAmount)..MaxAmount} \cup {NaN, PosInf, NegInf}

\* the canonical non-negative balances an account can be constructed with
StartBalances == {Fin(10 * c) : c \in 0..(MaxBalance \div 10)}

\* the model lets a finite balance grow to MaxBalance and no further
WithinBalance(x) == IsFin(x) => x.v <= MaxBalance

\* account references a caller can pass: null, the empty string, two identifiers
Refs == {Null, "", "a1", "a2"}

Descriptions == {"rent"}

\* the raw amounts offered to the Transaction constructor
TxnAmounts == {Fin(-10), Fin(4), Fin(15), NaN}

\* the `status` argument left out, so that its default applies
Undefined == "<undefined>"

\* the last Transaction call: its arguments as a would-be object `args`, the
\* error thrown and the object before the call
TxnRes(op, args, err, before) ==
    [op |-> op, args |-> args, err |-> err, before |-> before]

\* the raw amounts offered to the AccountService
SvcAmounts == {Fin(-10), Fin(4), Fin(10), Fin(15), Fin(25), NaN, PosInf}

\* the in-memory Account objects of SpecService: h1 is account a1, h2 is a2
Handles == {"h1", "h2"}
HandleId(h) == IF h = "h1" THEN "a1" ELSE "a2"

\* the last AccountService call: the objects passed, the Money amount, the
\* objects before the call and what AccountService gave
SvcRes(op, from, to, amount, before, txnObj, ret, err, cause) ==
    [op |-> op, from |-> from, to |-> to, amount |-> amount, before |-> before,
     txn |-> txnObj, ret |-> ret, err |-> err, cause |-> cause]

\* the value of a variable in the specifications that do not use it
Idle == <<>>

\* the raw amounts offered to the use cases
LedgerAmounts == {Fin(4), Fin(10), Fin(15), NaN}

\* the descriptions the use cases are called with: a word, and one of blanks
\* only, which the request validation lets through (it does not trim) and
\* which TransactionSchema trims to the empty string and rejects
LedgerDescriptions == {"rent", "  "}

\* the (amount, description) pairs of the calls: every amount with the worded
\* description, and one amount with the blank one
LedgerInputs ==
    {in \in LedgerAmounts \X LedgerDescriptions :
        in[2] = "rent" \/ in[1] = Fin(10)}

\* the account identifiers callers pass: the first two uuidv4() hands out, and
\* one that names nothing
CallerIds == {"u1", "u2", "zz"}

Names == {"Alice"}

\* the last use case: its arguments, the collections before it, and its outcome
UseRes(op, from, to, raw, accsBefore, txnsBefore, out) ==
    [op |-> op, from |-> from, to |-> to, raw |-> raw,
     accountsBefore |-> accsBefore, transactionsBefore |-> txnsBefore,
     err |-> out.err, ret |-> out.ret, loaded |-> out.loaded, objs |-> out.objs]

NoUseRes ==
    UseRes("none", "", "", Zero, {}, {},
           UseCase({}, {}, NoError, NoTxn, <<>>, <<>>, FALSE))

\* every stored finite balance is within the range the model explores
AllWithinBalance(docs) == \A d \in docs : WithinBalance(d.balance)

----------------------------------------------------------------------------
(* The clock *)

\* time passes between two reads of `new Date()`
Tick ==
    /\ now < MaxTime
    /\ now' = now + 1
    /\ UNCHANGED <<acct, res, txn, tres, nextId, mem, sres, accounts, transactions, ures, money, mres, stres, procs>>

----------------------------------------------------------------------------
(* SpecAccount: calls on one Account object *)

AccountRes(op, arg, before, err, ret) ==
    [op |-> op, arg |-> arg, before |-> before, err |-> err, ret |-> ret]

InitAccount ==
    /\ now = 0
    /\ procs = Idle
    /\ acct \in {Account("Test Account", b, "a1", 0, 0) : b \in StartBalances}
    /\ res = AccountRes("new", Zero, acct, NoError, FALSE)
    /\ nextId = 0
    /\ txn = Idle /\ tres = Idle
    /\ mem = Idle /\ sres = Idle
    /\ accounts = Idle /\ transactions = Idle /\ ures = Idle
    /\ money = Idle /\ mres = Idle /\ stres = Idle

\* account.deposit(new Money(raw))
CallDeposit(raw) ==
    LET r == Account_deposit(acct, Money(raw), now)
    IN  /\ WithinBalance(r.acct.balance)
        /\ acct' = r.acct
        /\ res' = AccountRes("deposit", Money(raw), acct, r.err, FALSE)
        /\ UNCHANGED <<now, txn, tres, nextId, mem, sres, accounts, transactions, ures, money, mres, stres, procs>>

\* account.withdraw(new Money(raw))
CallWithdraw(raw) ==
    LET r == Account_withdraw(acct, Money(raw), now)
    IN  /\ acct' = r.acct
        /\ res' = AccountRes("withdraw", Money(raw), acct, r.err, FALSE)
        /\ UNCHANGED <<now, txn, tres, nextId, mem, sres, accounts, transactions, ures, money, mres, stres, procs>>

\* account.canWithdraw(new Money(raw))
CallCanWithdraw(raw) ==
    /\ res' = AccountRes("canWithdraw", Money(raw), acct, NoError,
                         Account_canWithdraw(acct, Money(raw)))
    /\ UNCHANGED <<now, acct, txn, tres, nextId, mem, sres, accounts, transactions, ures, money, mres, stres, procs>>

NextAccount ==
    \/ Tick
    \/ \E raw \in RawAmounts : CallDeposit(raw)
    \/ \E raw \in RawAmounts : CallWithdraw(raw)
    \/ \E raw \in RawAmounts : CallCanWithdraw(raw)

SpecAccount == InitAccount /\ [][NextAccount]_vars

----------------------------------------------------------------------------
(* SpecTxn: construction of a Transaction object and calls on it *)

InitTxn ==
    /\ now = 0
    /\ procs = Idle
    /\ txn = NoTxn
    /\ tres = TxnRes("none", NoTxn, NoError, NoTxn)
    /\ nextId = 0
    /\ acct = Idle /\ res = Idle
    /\ mem = Idle /\ sres = Idle
    /\ accounts = Idle /\ transactions = Idle /\ ures = Idle
    /\ money = Idle /\ mres = Idle /\ stres = Idle

\* new Transaction(type, new Money(raw), from, to, description[, status]);
\* the identifier is drawn before validateTransaction runs
NewTransaction(type, raw, from, to, description, st) ==
    LET status == IF st = Undefined THEN PENDING ELSE st
        r == Transaction(type, Money(raw), from, to, description, status,
                         uuidv4(nextId), now)
        args == [id |-> uuidv4(nextId), type |-> type, amount |-> Money(raw),
                 fromAccountId |-> from, toAccountId |-> to,
                 description |-> description, status |-> st, createdAt |-> now]
    IN  /\ nextId < MaxTxnObjects
        /\ nextId' = nextId + 1
        /\ txn' = r.txn
        /\ tres' = TxnRes("new", args, r.err, NoTxn)
        /\ UNCHANGED <<now, acct, res, mem, sres, accounts, transactions, ures, money, mres, stres, procs>>

\* transaction.complete()
CallComplete ==
    /\ txn # NoTxn
    /\ txn' = Transaction_complete(txn)
    /\ tres' = TxnRes("complete", NoTxn, NoError, txn)
    /\ UNCHANGED <<now, acct, res, nextId, mem, sres, accounts, transactions, ures, money, mres, stres, procs>>

\* transaction.fail()
CallFail ==
    /\ txn # NoTxn
    /\ txn' = Transaction_fail(txn)
    /\ tres' = TxnRes("fail", NoTxn, NoError, txn)
    /\ UNCHANGED <<now, acct, res, nextId, mem, sres, accounts, transactions, ures, money, mres, stres, procs>>

NextTxn ==
    \/ Tick
    \/ \E type \in TransactionType, raw \in TxnAmounts, from \in Refs, to \in Refs,
          description \in Descriptions, st \in TransactionStatus \cup {Undefined} :
            NewTransaction(type, raw, from, to, description, st)
    \/ CallComplete
    \/ CallFail

SpecTxn == InitTxn /\ [][NextTxn]_vars

----------------------------------------------------------------------------
(* SpecService: AccountService calls on two in-memory Account objects *)

InitService ==
    /\ now = 0
    /\ procs = Idle
    /\ nextId = 0
    /\ mem \in [Handles -> {Account("Test Account", b, id, 0, 0) :
                                b \in StartBalances, id \in {"a1", "a2"}}]
    /\ \A h \in Handles : mem[h].id = HandleId(h)
    /\ sres = SvcRes("none", "", "", Zero, mem, NoTxn, NoTxn, NoError, NoError)
    /\ acct = Idle /\ res = Idle
    /\ txn = Idle /\ tres = Idle
    /\ accounts = Idle /\ transactions = Idle /\ ures = Idle
    /\ money = Idle /\ mres = Idle /\ stres = Idle

\* accountService.deposit(mem[h], new Money(raw), description)
ServiceDeposit(h, raw, description) ==
    LET r == AccountService_deposit(mem[h], Money(raw), description,
                                    uuidv4(nextId), now)
    IN  /\ nextId < MaxCalls
        /\ WithinBalance(r.account.balance)
        /\ nextId' = nextId + 1
        /\ mem' = [mem EXCEPT ![h] = r.account]
        /\ sres' = SvcRes("deposit", "", h, Money(raw), mem, r.txn, r.ret,
                          r.err, r.cause)
        /\ UNCHANGED <<now, acct, res, txn, tres, accounts, transactions, ures, money, mres, stres, procs>>

\* accountService.withdraw(mem[h], new Money(raw), description)
ServiceWithdraw(h, raw, description) ==
    LET r == AccountService_withdraw(mem[h], Money(raw), description,
                                     uuidv4(nextId), now)
    IN  /\ nextId < MaxCalls
        /\ nextId' = nextId + 1
        /\ mem' = [mem EXCEPT ![h] = r.account]
        /\ sres' = SvcRes("withdraw", h, "", Money(raw), mem, r.txn, r.ret,
                          r.err, r.cause)
        /\ UNCHANGED <<now, acct, res, txn, tres, accounts, transactions, ures, money, mres, stres, procs>>

\* accountService.transfer(mem[hf], mem[ht], new Money(raw), description);
\* hf = ht passes one object twice
ServiceTransfer(hf, ht, raw, description) ==
    LET r == AccountService_transfer(mem[hf], mem[ht], Money(raw), description,
                                     uuidv4(nextId), now)
    IN  /\ nextId < MaxCalls
        /\ WithinBalance(r.to.balance)
        /\ nextId' = nextId + 1
        /\ mem' = IF hf = ht THEN [mem EXCEPT ![hf] = r.from]
                  ELSE [mem EXCEPT ![hf] = r.from, ![ht] = r.to]
        /\ sres' = SvcRes("transfer", hf, ht, Money(raw), mem, r.txn, r.ret,
                          r.err, r.cause)
        /\ UNCHANGED <<now, acct, res, txn, tres, accounts, transactions, ures, money, mres, stres, procs>>

NextService ==
    \/ Tick
    \/ \E h \in Handles, raw \in SvcAmounts, d \in Descriptions :
            ServiceDeposit(h, raw, d)
    \/ \E h \in Handles, raw \in SvcAmounts, d \in Descriptions :
            ServiceWithdraw(h, raw, d)
    \/ \E hf \in Handles, ht \in Handles, raw \in SvcAmounts, d \in Descriptions :
            ServiceTransfer(hf, ht, raw, d)

SpecService == InitService /\ [][NextService]_vars

----------------------------------------------------------------------------
(* SpecLedger: the use cases, one at a time, over the two collections.  *)
(* Every use case runs at the same clock reading.                       *)

InitLedger ==
    /\ now = 0
    /\ procs = Idle
    /\ nextId = 0
    /\ accounts = {}
    /\ transactions = {}
    /\ ures = NoUseRes
    /\ acct = Idle /\ res = Idle
    /\ txn = Idle /\ tres = Idle
    /\ mem = Idle /\ sres = Idle
    /\ money = Idle /\ mres = Idle /\ stres = Idle

\* the use case's outcome `out` becomes the state
Commit(op, from, to, raw, out) ==
    /\ out.drewId => nextId < MaxIds
    /\ AllWithinBalance(out.accounts)
    /\ nextId' = IF out.drewId THEN nextId + 1 ELSE nextId
    /\ accounts' = out.accounts
    /\ transactions' = out.transactions
    /\ ures' = UseRes(op, from, to, raw, accounts, transactions, out)
    /\ UNCHANGED <<now, acct, res, txn, tres, mem, sres, money, mres, stres, procs>>

UseCreateAccount(name) ==
    Commit("createAccount", "", "", Zero,
           AccountApplicationService_createAccount(
               accounts, transactions, name, uuidv4(nextId), now))

UseDeposit(accountId, raw, description) ==
    Commit("deposit", "", accountId, raw,
           TransactionApplicationService_deposit(
               accounts, transactions, accountId, raw, description,
               uuidv4(nextId), now))

UseWithdraw(accountId, raw, description) ==
    Commit("withdraw", accountId, "", raw,
           TransactionApplicationService_withdraw(
               accounts, transactions, accountId, raw, description,
               uuidv4(nextId), now))

UseTransfer(fromAccountId, toAccountId, raw, description) ==
    Commit("transfer", fromAccountId, toAccountId, raw,
           TransactionApplicationService_transfer(
               accounts, transactions, fromAccountId, toAccountId, raw,
               description, uuidv4(nextId), now))

NextLedger ==
    \/ \E name \in Names : UseCreateAccount(name)
    \/ \E id \in CallerIds, in \in LedgerInputs :
            UseDeposit(id, in[1], in[2])
    \/ \E id \in CallerIds, in \in LedgerInputs :
            UseWithdraw(id, in[1], in[2])
    \/ \E from \in CallerIds, to \in CallerIds, in \in LedgerInputs :
            UseTransfer(from, to, in[1], in[2])

SpecLedger == InitLedger /\ [][NextLedger]_vars

----------------------------------------------------------------------------
(* SpecMoney: construction of a Money value and calls on it *)

\* the last Money call: the raw number given to the constructor, the two
\* operands of add or subtract, and the value of the Money that results
MoneyRes(op, raw, a, b, out) ==
    [op |-> op, raw |-> raw, a |-> a, b |-> b, out |-> out]

\* the model lets a finite Money value range over -MaxBalance..MaxBalance
WithinMoney(x) == IsFin(x) => (x.v <= MaxBalance /\ -x.v <= MaxBalance)

InitMoney ==
    /\ now = 0
    /\ procs = Idle
    /\ nextId = 0
    /\ money = Money(Zero)
    /\ mres = MoneyRes("new", Zero, Zero, Zero, Money(Zero))
    /\ acct = Idle /\ res = Idle
    /\ txn = Idle /\ tres = Idle
    /\ mem = Idle /\ sres = Idle
    /\ accounts = Idle /\ transactions = Idle /\ ures = Idle
    /\ stres = Idle

\* money = new Money(raw)
MoneyNew(raw) ==
    /\ money' = Money(raw)
    /\ mres' = MoneyRes("new", raw, Zero, Zero, Money(raw))
    /\ UNCHANGED <<now, acct, res, txn, tres, nextId, mem, sres, accounts, transactions, ures, stres, procs>>

\* money = money.add(new Money(raw))
MoneyAdd(raw) ==
    LET r == Money_add(money, Money(raw))
    IN  /\ WithinMoney(r)
        /\ money' = r
        /\ mres' = MoneyRes("add", raw, money, Money(raw), r)
        /\ UNCHANGED <<now, acct, res, txn, tres, nextId, mem, sres, accounts, transactions, ures, stres, procs>>

\* money = money.subtract(new Money(raw))
MoneySubtract(raw) ==
    LET r == Money_subtract(money, Money(raw))
    IN  /\ WithinMoney(r)
        /\ money' = r
        /\ mres' = MoneyRes("subtract", raw, money, Money(raw), r)
        /\ UNCHANGED <<now, acct, res, txn, tres, nextId, mem, sres, accounts, transactions, ures, stres, procs>>

NextMoney ==
    \/ \E raw \in RawAmounts : MoneyNew(raw)
    \/ \E raw \in RawAmounts : MoneyAdd(raw)
    \/ \E raw \in RawAmounts : MoneySubtract(raw)

SpecMoney == InitMoney /\ [][NextMoney]_vars

----------------------------------------------------------------------------
(* SpecStore: the two repositories called directly, with entities built at *)
(* or before the time of the call                                          *)

\* the names, balances and identifiers of the Account entities handed to save
StoreNames == {"Alice", " Bob "}
StoreBalances == {Zero, Fin(20), NaN}
StoreAccountIds == {"a1", "a2"}

\* the descriptions, amounts, statuses and identifiers of the Transaction
\* entities handed to save
StoreDescriptions == {"rent", " rent "}
StoreAmounts == {Fin(10), NaN}
StoreStatuses == {PENDING, COMPLETED}
StoreTxnIds == {"t1", "t2"}

\* the last store call: the entity passed (an Account, a Transaction or an
\* identifier), the error thrown, the entity returned, the two collections
\* before the call, the number of save calls so far, and the Account entity of
\* the last save that did not throw
StoreRes(op, arg, err, ret, accsBefore, txnsBefore, saves, saved) ==
    [op |-> op, arg |-> arg, err |-> err, ret |-> ret,
     accountsBefore |-> accsBefore, transactionsBefore |-> txnsBefore,
     saves |-> saves, saved |-> saved]

InitStore ==
    /\ now = 0
    /\ procs = Idle
    /\ accounts = {}
    /\ transactions = {}
    /\ stres = StoreRes("none", "", NoError, "", {}, {}, 0, NoAccount)
    /\ nextId = 0
    /\ acct = Idle /\ res = Idle
    /\ txn = Idle /\ tres = Idle
    /\ mem = Idle /\ sres = Idle
    /\ ures = Idle
    /\ money = Idle /\ mres = Idle

\* accountRepository.save(account), for an Account constructed at time c
StoreSaveAccount(name, balance, id, c) ==
    LET account == Account(name, Money(balance), id, c, c)
        s == AccountRepository_save(accounts, account, now)
    IN  /\ stres.saves < MaxSaves
        /\ c <= now
        /\ accounts' = s.docs
        /\ stres' = StoreRes("saveAccount", account, s.err, s.ret, accounts,
                             transactions, stres.saves + 1,
                             IF s.err = NoError THEN account ELSE stres.saved)
        /\ UNCHANGED <<now, acct, res, txn, tres, nextId, mem, sres, transactions, ures, money, mres, procs>>

\* accountRepository.findById(id)
StoreFindAccount(id) ==
    /\ stres' = StoreRes("findAccount", id, NoError,
                         AccountRepository_findById(accounts, id), accounts,
                         transactions, stres.saves, stres.saved)
    /\ UNCHANGED <<now, acct, res, txn, tres, nextId, mem, sres, accounts, transactions, ures, money, mres, procs>>

\* transactionRepository.save(transaction), for a deposit Transaction
\* constructed now
StoreSaveTransaction(raw, description, status, id) ==
    LET c == Transaction(DEPOSIT, Money(raw), Null, "a1", description, status,
                         id, now)
        s == TransactionRepository_save(transactions, c.txn, now)
    IN  /\ stres.saves < MaxSaves
        /\ c.err = NoError
        /\ transactions' = s.docs
        /\ stres' = StoreRes("saveTransaction", c.txn, s.err, s.ret, accounts,
                             transactions, stres.saves + 1, stres.saved)
        /\ UNCHANGED <<now, acct, res, txn, tres, nextId, mem, sres, accounts, ures, money, mres, procs>>

\* transactionRepository.findById(id)
StoreFindTransaction(id) ==
    LET f == TransactionRepository_findById(transactions, id)
    IN  /\ stres' = StoreRes("findTransaction", id, f.err, f.txn, accounts,
                             transactions, stres.saves, stres.saved)
        /\ UNCHANGED <<now, acct, res, txn, tres, nextId, mem, sres, accounts, transactions, ures, money, mres, procs>>

NextStore ==
    \/ Tick
    \/ \E name \in StoreNames, balance \in StoreBalances, id \in StoreAccountIds,
          c \in 0..MaxTime :
            StoreSaveAccount(name, balance, id, c)
    \/ \E id \in StoreAccountIds : StoreFindAccount(id)
    \/ \E raw \in StoreAmounts, description \in StoreDescriptions,
          status \in StoreStatuses, id \in StoreTxnIds :
            StoreSaveTransaction(raw, description, status, id)
    \/ \E id \in StoreTxnIds : StoreFindTransaction(id)

SpecStore == InitStore /\ [][NextStore]_vars

----------------------------------------------------------------------------
(* SpecConcurrent: two use cases in progress at once.  A step is one await  *)
(* of the use case together with the synchronous code that follows it up   *)
(* to the next await.  A save is one step: the accounts and the            *)
(* Transaction it is called with are in the collection, or not, at its     *)
(* findOne as at its write, since no step here inserts or removes an       *)
(* account and every Transaction has its own identifier.                   *)

\* the error of a store operation the database rejects or cannot carry out
ErrStore == "MongoError"

Procs == {"p1", "p2"}

\* the identifier uuidv4() gives the Transaction of p's use case
ProcUuid(p) == IF p = "p1" THEN "u1" ELSE "u2"

\* the stored accounts the use cases name and the raw amounts they pass
ConcIds == {"a1", "a2"}
ConcAmounts == {Fin(10), Fin(20), NaN}

\* the account collection the use cases start from
ConcAccounts(b1, b2) ==
    {[_id |-> 1, uuid |-> "a1", name |-> "Alice", balance |-> b1,
      createdAt |-> 0, updatedAt |-> 0],
     [_id |-> 2, uuid |-> "a2", name |-> "Bob", balance |-> b2,
      createdAt |-> 0, updatedAt |-> 0]}

\* a process: the use case it runs and its arguments, where it stands, the
\* Account objects as loaded and as mutated, the Transaction AccountService
\* returned, the error thrown, the writes it has made in order, and the
\* processes that had written an account when it loaded
NoProc ==
    [op |-> "none", from |-> "", to |-> "", raw |-> Zero, pc |-> "idle",
     loaded |-> <<>>, objs |-> <<>>, txn |-> NoTxn, err |-> NoError,
     writes |-> <<>>, after |-> {}]

\* the processes that have written an account
Writers == {q \in Procs : procs[q].writes # <<>>}

InitConcurrent ==
    /\ now = 0
    /\ nextId = 0
    /\ accounts \in {ConcAccounts(b1, b2) : b1 \in {Fin(10), Fin(20)},
                                            b2 \in {Zero, Fin(10)}}
    /\ transactions = {}
    /\ procs = [p \in Procs |-> NoProc]
    /\ acct = Idle /\ res = Idle
    /\ txn = Idle /\ tres = Idle
    /\ mem = Idle /\ sres = Idle
    /\ ures = Idle
    /\ money = Idle /\ mres = Idle /\ stres = Idle

\* deposit or withdraw up to its first save: findById, the null check,
\* new Money(amount) and the AccountService call
StepLoad(p, op, id, raw) ==
    LET account == AccountRepository_findById(accounts, id)
        r == IF op = "deposit"
             THEN AccountService_deposit(account, Money(raw), "rent",
                                         ProcUuid(p), now)
             ELSE AccountService_withdraw(account, Money(raw), "rent",
                                          ProcUuid(p), now)
        base == [NoProc EXCEPT !.op = op, !.raw = raw,
                               !.from = IF op = "withdraw" THEN id ELSE "",
                               !.to = IF op = "deposit" THEN id ELSE "",
                               !.loaded = <<account>>, !.after = Writers]
    IN  /\ procs[p].pc = "idle"
        /\ account # NoAccount => WithinBalance(r.account.balance)
        /\ procs' = [procs EXCEPT ![p] =
                IF account = NoAccount
                THEN [base EXCEPT !.pc = "done", !.err = ErrAccountNotFound]
                ELSE IF r.err # NoError
                THEN [base EXCEPT !.pc = "done", !.err = r.err,
                                  !.objs = <<r.account>>, !.txn = r.txn]
                ELSE [base EXCEPT !.pc = "saveAccount",
                                  !.objs = <<r.account>>, !.txn = r.ret]]
        /\ UNCHANGED <<accounts, transactions, now, acct, res, txn, tres, nextId, mem, sres, ures, money, mres, stres>>

\* transfer up to its second findById
StepLoadFrom(p, fromAccountId, toAccountId, raw) ==
    /\ procs[p].pc = "idle"
    /\ procs' = [procs EXCEPT ![p] =
            [NoProc EXCEPT !.op = "transfer", !.raw = raw,
                           !.from = fromAccountId, !.to = toAccountId,
                           !.loaded = <<AccountRepository_findById(
                                            accounts, fromAccountId)>>,
                           !.after = Writers, !.pc = "loadTo"]]
    /\ UNCHANGED <<accounts, transactions, now, acct, res, txn, tres, nextId, mem, sres, ures, money, mres, stres>>

\* transfer from its second findById up to its first save: the two null
\* checks, new Money(amount) and the AccountService call
StepLoadTo(p) ==
    LET me == procs[p]
        fromAccount == me.loaded[1]
        toAccount == AccountRepository_findById(accounts, me.to)
        r == AccountService_transfer(fromAccount, toAccount, Money(me.raw),
                                     "rent", ProcUuid(p), now)
        base == [me EXCEPT !.loaded = <<fromAccount, toAccount>>]
    IN  /\ me.pc = "loadTo"
        /\ (fromAccount # NoAccount /\ toAccount # NoAccount)
                => WithinBalance(r.to.balance)
        /\ procs' = [procs EXCEPT ![p] =
                IF fromAccount = NoAccount
                THEN [base EXCEPT !.pc = "done", !.err = ErrSourceNotFound]
                ELSE IF toAccount = NoAccount
                THEN [base EXCEPT !.pc = "done", !.err = ErrTargetNotFound]
                ELSE IF r.err # NoError
                THEN [base EXCEPT !.pc = "done", !.err = r.err,
                                  !.objs = <<r.from, r.to>>, !.txn = r.txn]
                ELSE [base EXCEPT !.pc = "saveFrom",
                                  !.objs = <<r.from, r.to>>, !.txn = r.ret]]
        /\ UNCHANGED <<accounts, transactions, now, acct, res, txn, tres, nextId, mem, sres, ures, money, mres, stres>>

\* AfterAccountSave with the error swallowed: the use case goes on to its
\* next await whether or not the save returned
AfterAccountSave_swallows(me, s, ok, tag, nextPc) ==
    IF ok /\ s.err = NoError
    THEN [me EXCEPT !.pc = nextPc, !.writes = Append(@, tag)]
    ELSE [me EXCEPT !.pc = nextPc]

\* the use case after `await accountRepository.save(...)`: a save that throws
\* ends the use case with that error (the catch blocks rethrow), one that
\* returns is a write made and the use case goes on to its next await
AfterAccountSave(me, s, ok, tag, nextPc) ==
    IF ~ok THEN [me EXCEPT !.pc = "done", !.err = ErrStore]
    ELSE IF s.err # NoError THEN [me EXCEPT !.pc = "done", !.err = s.err]
    ELSE [me EXCEPT !.pc = nextPc, !.writes = Append(@, tag)]

\* deposit or withdraw: await accountRepository.save(account); the database
\* carries the operation out (ok) or rejects it
StepSaveAccount(p, ok) ==
    LET me == procs[p]
        s == AccountRepository_save(accounts, me.objs[1], now)
    IN  /\ me.pc = "saveAccount"
        /\ accounts' = IF ok THEN s.docs ELSE accounts
        /\ procs' = [procs EXCEPT ![p] =
                        AfterAccountSave(me, s, ok, "account", "saveTxn")]
        /\ UNCHANGED <<transactions, now, acct, res, txn, tres, nextId, mem, sres, ures, money, mres, stres>>

\* transfer: await accountRepository.save(fromAccount)
StepSaveFrom(p, ok) ==
    LET me == procs[p]
        s == AccountRepository_save(accounts, me.objs[1], now)
    IN  /\ me.pc = "saveFrom"
        /\ accounts' = IF ok THEN s.docs ELSE accounts
        /\ procs' = [procs EXCEPT ![p] =
                        AfterAccountSave(me, s, ok, "from", "saveTo")]
        /\ UNCHANGED <<transactions, now, acct, res, txn, tres, nextId, mem, sres, ures, money, mres, stres>>

\* StepSaveTo with a compensating write: when the save of toAccount is
\* rejected, the source account is saved again as it was loaded
StepSaveTo_rollsBack(p, ok) ==
    LET me == procs[p]
        s == AccountRepository_save(accounts, me.objs[2], now)
        undo == AccountRepository_save(accounts, me.loaded[1], now)
    IN  /\ me.pc = "saveTo"
        /\ accounts' = IF ok THEN s.docs ELSE undo.docs
        /\ procs' = [procs EXCEPT ![p] =
                        AfterAccountSave(me, s, ok, "to", "saveTxn")]
        /\ UNCHANGED <<transactions, now, acct, res, txn, tres, nextId, mem, sres, ures, money, mres, stres>>

\* transfer: await accountRepository.save(toAccount)
StepSaveTo(p, ok) ==
    LET me == procs[p]
        s == AccountRepository_save(accounts, me.objs[2], now)
    IN  /\ me.pc = "saveTo"
        /\ accounts' = IF ok THEN s.docs ELSE accounts
        /\ procs' = [procs EXCEPT ![p] =
                        AfterAccountSave(me, s, ok, "to", "saveTxn")]
        /\ UNCHANGED <<transactions, now, acct, res, txn, tres, nextId, mem, sres, ures, money, mres, stres>>

\* every use case: await transactionRepository.save(transaction), then return
StepSaveTxn(p, ok) ==
    LET me == procs[p]
        s == TransactionRepository_save(transactions, me.txn, now)
    IN  /\ me.pc = "saveTxn"
        /\ transactions' = IF ok THEN s.docs ELSE transactions
        /\ procs' = [procs EXCEPT ![p] =
                IF ~ok THEN [me EXCEPT !.pc = "done", !.err = ErrStore]
                ELSE IF s.err # NoError
                THEN [me EXCEPT !.pc = "done", !.err = s.err]
                ELSE [me EXCEPT !.pc = "done", !.writes = Append(@, "txn")]]
        /\ UNCHANGED <<accounts, now, acct, res, txn, tres, nextId, mem, sres, ures, money, mres, stres>>

\* execution stops at an await and is not resumed
Crash(p) ==
    /\ procs[p].pc \in {"loadTo", "saveAccount", "saveFrom", "saveTo", "saveTxn"}
    /\ procs' = [procs EXCEPT ![p].pc = "stopped"]
    /\ UNCHANGED <<accounts, transactions, now, acct, res, txn, tres, nextId, mem, sres, ures, money, mres, stres>>

NextConcurrent ==
    \/ \E p \in Procs, op \in {"deposit", "withdraw"}, id \in ConcIds,
          raw \in ConcAmounts :
            StepLoad(p, op, id, raw)
    \/ \E p \in Procs, from \in ConcIds, to \in ConcIds, raw \in ConcAmounts :
            StepLoadFrom(p, from, to, raw)
    \/ \E p \in Procs : StepLoadTo(p)
    \/ \E p \in Procs, ok \in BOOLEAN : StepSaveAccount(p, ok)
    \/ \E p \in Procs, ok \in BOOLEAN : StepSaveFrom(p, ok)
    \/ \E p \in Procs, ok \in BOOLEAN : StepSaveTo(p, ok)
    \/ \E p \in Procs, ok \in BOOLEAN : StepSaveTxn(p, ok)
    \/ \E p \in Procs : Crash(p)

SpecConcurrent == InitConcurrent /\ [][NextConcurrent]_vars

----------------------------------------------------------------------------
(* Claims about Account, under SpecAccount *)

\* C1: starting from a balance >= 0, after any sequence of deposit and
\* withdraw calls with any amounts, the account's balance is >= 0.
C1_BalanceNonNegative == Ge(acct.balance, Zero)

\* b + a rounded to two decimals, for a > 0 and b >= 0 (neither is NaN)
C2_Expected(b, a) ==
    IF IsFin(b) /\ IsFin(a) THEN Fin(((b.v + a.v + 5) \div 10) * 10) ELSE PosInf

\* C2: for every amount a > 0 and starting balance b >= 0, deposit(a) succeeds
\* and leaves the balance equal to b + a rounded to two decimals.
C2_DepositAddsRounded ==
    (res.op = "deposit" /\ Gt(res.arg, Zero) /\ Ge(res.before.balance, Zero))
        => /\ res.err = NoError
           /\ acct.balance = C2_Expected(res.before.balance, res.arg)

\* a deposit of a positive finite amount onto a finite balance has been made
C2_Witness ==
    /\ res.op = "deposit"
    /\ IsFin(res.arg) /\ res.arg.v > 0
    /\ IsFin(res.before.balance) /\ res.before.balance.v > 0
    /\ acct.balance = Fin(res.before.balance.v + res.arg.v)

\* C3: for every amount a <= 0, deposit(a) and withdraw(a) fail with the
\* invalid-amount error and leave the balance and updatedAt unchanged.
C3_NonPositiveRejected ==
    (res.op \in {"deposit", "withdraw"} /\ Le(res.arg, Zero))
        => /\ res.err = (IF res.op = "deposit" THEN ErrDepositAmount
                                               ELSE ErrWithdrawAmount)
           /\ res.err \in InvalidAmount
           /\ acct = res.before

\* a zero deposit was rejected at a time later than the account's updatedAt
C3_Witness ==
    /\ res.op = "deposit"
    /\ res.arg = Zero
    /\ res.err = ErrDepositAmount
    /\ now > acct.updatedAt

\* C4: for every amount a and balance b with a > b >= 0, withdraw(a) fails
\* with the insufficient-funds error and leaves the balance unchanged.
C4_OverdraftRejected ==
    (res.op = "withdraw" /\ Gt(res.arg, res.before.balance)
                         /\ Ge(res.before.balance, Zero))
        => /\ res.err = ErrInsufficient
           /\ acct.balance = res.before.balance

\* a withdrawal of more than a positive balance was rejected
C4_Witness ==
    /\ res.op = "withdraw"
    /\ IsFin(res.arg) /\ IsFin(res.before.balance)
    /\ res.arg.v > res.before.balance.v
    /\ res.before.balance.v > 0
    /\ res.err = ErrInsufficient

\* 0 < a <= b on JavaScript numbers: integers when both are finite, and
\* false as soon as one is NaN
C5_Expected(b, a) ==
    IF IsFin(a) /\ IsFin(b) THEN 0 < a.v /\ a.v <= b.v
    ELSE /\ ~IsNaN(a) /\ ~IsNaN(b)
         /\ a # NegInf
         /\ IsFin(a) => a.v > 0
         /\ b = PosInf

\* C5: canWithdraw(a) on balance b returns true exactly when 0 < a <= b
\* (a = b included), and the call changes no field of the account.
C5_CanWithdraw ==
    res.op = "canWithdraw"
        => /\ res.ret = C5_Expected(res.before.balance, res.arg)
           /\ acct = res.before

\* canWithdraw was asked for exactly the balance, and answered true
C5_Witness ==
    /\ res.op = "canWithdraw"
    /\ res.ret = TRUE
    /\ IsFin(res.arg) /\ res.arg.v > 0
    /\ res.arg = res.before.balance

----------------------------------------------------------------------------
(* Claims about Transaction, under SpecTxn *)

\* an account reference that names an account: neither null nor empty
IsRef(x) == x # Null /\ x # ""

\* the arguments C6 lists: a non-positive amount, or references that do not
\* fit the type
C6_BadArguments(a) ==
    \/ Le(a.amount, Zero)
    \/ a.type = DEPOSIT /\ (IsRef(a.fromAccountId) \/ ~IsRef(a.toAccountId))
    \/ a.type = WITHDRAWAL /\ (IsRef(a.toAccountId) \/ ~IsRef(a.fromAccountId))
    \/ a.type = TRANSFER /\ \/ ~IsRef(a.fromAccountId)
                            \/ ~IsRef(a.toAccountId)
                            \/ a.fromAccountId = a.toAccountId

\* C6: constructing a Transaction fails, and no object results, when the
\* amount is <= 0, when a DEPOSIT names a source account or no target, when a
\* WITHDRAWAL names a target account or no source, and when a TRANSFER lacks a
\* reference or has source = target.  A reference here names an account: it
\* is a non-empty string.
C6_BadShapeRejected ==
    (tres.op = "new" /\ C6_BadArguments(tres.args))
        => /\ tres.err \in InvalidTransactionShape
           /\ txn = NoTxn

\* a TRANSFER from an account to itself, of a positive amount, was rejected
C6_Witness ==
    /\ tres.op = "new"
    /\ tres.args.type = TRANSFER
    /\ tres.args.fromAccountId = "a1"
    /\ tres.args.toAccountId = "a1"
    /\ Gt(tres.args.amount, Zero)
    /\ tres.err = ErrTransferSame
    /\ txn = NoTxn

\* C7: every Transaction that was constructed, for any reference values, the
\* empty string included, has its type's shape: a DEPOSIT a non-null target
\* and a null source, a WITHDRAWAL a non-null source and a null target, a
\* TRANSFER two non-null references that differ.
C7_ConstructedHasShape ==
    txn # NoTxn
        => CASE txn.type = DEPOSIT ->
                    txn.toAccountId # Null /\ txn.fromAccountId = Null
             [] txn.type = WITHDRAWAL ->
                    txn.fromAccountId # Null /\ txn.toAccountId = Null
             [] txn.type = TRANSFER ->
                    /\ txn.fromAccountId # Null
                    /\ txn.toAccountId # Null
                    /\ txn.fromAccountId # txn.toAccountId
             [] OTHER -> FALSE

\* C8: a Transaction's status only moves PENDING -> COMPLETED or
\* PENDING -> FAILED: over any sequence of complete() and fail() calls a
\* status that changes was PENDING, so a terminal status never changes.
C8_StatusOnlyLeavesPending ==
    [][(tres'.op \in {"complete", "fail"} /\ txn'.status # txn.status)
            => txn.status = PENDING]_vars

----------------------------------------------------------------------------
(* Claims about AccountService, under SpecService *)

\* C9: in AccountService.deposit, withdraw and transfer, once the PENDING
\* Transaction has been constructed: if the mutation step succeeds the
\* returned Transaction is COMPLETED; if it fails the Transaction is set to
\* FAILED and the error that caused the failure is the one raised.
C9_FinalizeFollowsMutation ==
    (sres.op \in {"deposit", "withdraw", "transfer"} /\ sres.txn # NoTxn)
        => IF sres.cause = NoError
           THEN /\ sres.err = NoError
                /\ sres.ret # NoTxn
                /\ sres.ret.status = COMPLETED
           ELSE /\ sres.txn.status = FAILED
                /\ sres.ret = NoTxn
                /\ sres.err = sres.cause

\* a withdrawal of more than the balance left its Transaction FAILED and
\* raised the insufficient-funds error
C9_Witness ==
    /\ sres.op = "withdraw"
    /\ sres.txn # NoTxn
    /\ sres.cause = ErrInsufficient
    /\ sres.txn.status = FAILED
    /\ sres.err = ErrInsufficient

----------------------------------------------------------------------------
(* Claims about the use cases, under SpecLedger *)

\* the last use case wrote nothing and changed no Account object it loaded
C10_NothingChanged ==
    /\ accounts = ures.accountsBefore
    /\ transactions = ures.transactionsBefore
    /\ ures.objs = ures.loaded

\* C10 as stated: a transfer whose source and target account identifiers are
\* equal fails with the invalid-transaction-shape error before any balance
\* changes: no in-memory balance is modified and no account or transaction
\* record is written.
C10_SelfTransferShapeError ==
    (ures.op = "transfer" /\ ures.from = ures.to)
        => /\ ures.err \in InvalidTransactionShape
           /\ C10_NothingChanged

\* C10 as amended: a transfer whose source and target account identifiers are
\* equal fails before any balance changes, with the invalid-transaction-shape
\* error when the identifier resolves to a stored account and with the
\* source-account-not-found error when it does not; no in-memory balance is
\* modified and no account or transaction record is written.
C10_SelfTransferRejected ==
    (ures.op = "transfer" /\ ures.from = ures.to)
        => /\ IF WithUuid(ures.accountsBefore, ures.from) # {}
              THEN ures.err \in InvalidTransactionShape
              ELSE ures.err = ErrSourceNotFound
           /\ C10_NothingChanged

\* a transfer from a stored account to itself, of an amount its balance
\* covers, was rejected for having source = target
C10_Witness ==
    /\ ures.op = "transfer"
    /\ ures.from = ures.to
    /\ ures.err = ErrTransferSame
    /\ Len(ures.loaded) = 2
    /\ Account_canWithdraw(ures.loaded[1], Money(ures.raw))

----------------------------------------------------------------------------
(* Claims about failed and successful use cases, under SpecLedger and      *)
(* SpecService                                                             *)

\* C11: when a withdraw or transfer use case fails in the account mutation
\* step (insufficient funds), the transaction collection afterwards holds a
\* record of the attempt, written by this use case, with status FAILED.
C11_FailedAttemptPersisted ==
    (ures.op \in {"withdraw", "transfer"} /\ ures.err = ErrInsufficient)
        => \E d \in transactions \ ures.transactionsBefore :
                /\ d.status = FAILED
                /\ d.fromAccountId = ures.from

\* C12: when AccountService.withdraw or AccountService.transfer is called with
\* an amount greater than the source account's balance, the call fails, the
\* balance of every account involved is the same as before the call, and the
\* operation's Transaction has status FAILED.  (A transfer that passes one
\* account as both source and target is the case of C10.)
C12_FailedLeavesBalances ==
    (/\ sres.op \in {"withdraw", "transfer"}
     /\ sres.from # sres.to
     /\ Gt(sres.amount, sres.before[sres.from].balance))
        => /\ sres.err = ErrInsufficient
           /\ sres.ret = NoTxn
           /\ \A h \in Handles : mem[h].balance = sres.before[h].balance
           /\ sres.txn # NoTxn
           /\ sres.txn.status = FAILED

\* a transfer between two accounts, of more than the source holds and with the
\* clock ahead of both accounts, has failed
C12_Witness ==
    /\ sres.op = "transfer"
    /\ sres.from # sres.to
    /\ IsFin(sres.amount)
    /\ Gt(sres.amount, sres.before[sres.from].balance)
    /\ Gt(sres.before[sres.from].balance, Zero)
    /\ sres.txn.status = FAILED
    /\ now > 0

\* the balance stored for the account with domain identifier id
StoredBalance(docs, id) == findOne(docs, id).balance

C14_TransferConserves ==
    LET a == Money(ures.raw)
        bf == ures.loaded[1].balance
        bt == ures.loaded[2].balance
    IN  (/\ ures.op = "transfer"
         /\ ures.from # ures.to
         /\ ures.err = NoError
         /\ Gt(a, Zero)
         /\ Le(a, bf))
            => /\ StoredBalance(accounts, ures.from) = Fin(bf.v - a.v)
               /\ StoredBalance(accounts, ures.to) = Fin(bt.v + a.v)
               /\ Plus(StoredBalance(accounts, ures.from),
                       StoredBalance(accounts, ures.to)) = Plus(bf, bt)
               /\ \A d \in accounts : d.uuid \notin {ures.from, ures.to}
                        => d \in ures.accountsBefore
               /\ ures.ret.type = TRANSFER
               /\ ures.ret.status = COMPLETED
               /\ ures.ret.amount = a
               /\ ures.ret.fromAccountId = ures.from
               /\ ures.ret.toAccountId = ures.to

\* a transfer of part of the source balance between two stored accounts has
\* succeeded
C14_Witness ==
    /\ ures.op = "transfer"
    /\ ures.from # ures.to
    /\ ures.err = NoError
    /\ Gt(StoredBalance(accounts, ures.from), Zero)
    /\ Gt(StoredBalance(accounts, ures.to), Zero)
    /\ ures.ret.status = COMPLETED

\* the account collection as the last use case found it resolves id to nothing
Unresolved(id) == WithUuid(ures.accountsBefore, id) = {}

\* C15: a deposit, withdraw or transfer use case that names an account
\* identifier the account store cannot resolve fails with the
\* account-not-found error and writes nothing: both collections are as they
\* were before the use case.
C15_UnknownAccountRejected ==
    (\/ ures.op = "deposit" /\ Unresolved(ures.to)
     \/ ures.op = "withdraw" /\ Unresolved(ures.from)
     \/ ures.op = "transfer" /\ (Unresolved(ures.from) \/ Unresolved(ures.to)))
        => /\ ures.err \in AccountNotFound
           /\ ures.ret = NoTxn
           /\ accounts = ures.accountsBefore
           /\ transactions = ures.transactionsBefore

\* a transfer of an amount the stored source account covers, to an identifier
\* that names no account, was rejected
C15_Witness ==
    /\ ures.op = "transfer"
    /\ ~Unresolved(ures.from)
    /\ Unresolved(ures.to)
    /\ Account_canWithdraw(ures.loaded[1], Money(ures.raw))
    /\ ures.err = ErrTargetNotFound

----------------------------------------------------------------------------
(* Claims about the stores, under SpecStore *)

\* C16: saving an Account through the account store and then loading it by
\* its identifier returns an Account with the same identifier, name, balance,
\* createdAt and updatedAt as the entity that was saved.
C16_RoundTrip ==
    (/\ stres.op = "findAccount"
     /\ stres.saved # NoAccount
     /\ stres.arg = stres.saved.id)
        => /\ stres.ret.id = stres.saved.id
           /\ stres.ret.name = stres.saved.name
           /\ stres.ret.balance = stres.saved.balance
           /\ stres.ret.createdAt = stres.saved.createdAt
           /\ stres.ret.updatedAt = stres.saved.updatedAt

\* at most one document of the collection per domain identifier
OnePerUuid(docs) == \A d \in docs, e \in docs : d.uuid = e.uuid => d = e

----------------------------------------------------------------------------
(* Claims about Money, under SpecMoney *)

\* x is a whole number of cents
WholeCents(x) == IsFin(x) /\ x.v % 10 = 0

\* C18: every Money value is canonical.  For every finite input v,
\* Money(v).value is the whole number of cents nearest to v, a half going
\* towards +Infinity as Math.round has it (NaN and the infinities stay what
\* they are); and add and subtract on whole numbers of cents give a whole
\* number of cents, the exact sum or difference of the operands.
C18_MoneyCanonical ==
    /\ IsFin(money) => WholeCents(money)
    /\ (mres.op = "new" /\ IsFin(mres.raw))
            => /\ WholeCents(mres.out)
               /\ mres.raw.v - 5 < mres.out.v
               /\ mres.out.v <= mres.raw.v + 5
    /\ (mres.op = "new" /\ ~IsFin(mres.raw)) => mres.out = mres.raw
    /\ (mres.op = "add" /\ WholeCents(mres.a) /\ WholeCents(mres.b))
            => /\ WholeCents(mres.out)
               /\ mres.out.v = mres.a.v + mres.b.v
    /\ (mres.op = "subtract" /\ WholeCents(mres.a) /\ WholeCents(mres.b))
            => /\ WholeCents(mres.out)
               /\ mres.out.v = mres.a.v - mres.b.v

\* a Money was constructed from a negative number halfway between two cents,
\* which went to the cent above
C18_Witness ==
    /\ mres.op = "new"
    /\ IsFin(mres.raw)
    /\ mres.raw.v < 0
    /\ mres.raw.v % 10 = 5
    /\ mres.out.v = mres.raw.v + 5
    /\ money = mres.out

----------------------------------------------------------------------------
(* Frame claims about Account and Transaction, under SpecAccount and SpecTxn *)

\* C19: an Account's identifier never changes after construction: deposit and
\* withdraw, whether they succeed or fail, leave the identifier, name and
\* createdAt as they were, and a successful call changes only the balance and
\* updatedAt.
C19_IdentityFixed ==
    /\ acct.id = "a1"
    /\ res.op \in {"deposit", "withdraw"}
            => /\ acct.id = res.before.id
               /\ acct.name = res.before.name
               /\ acct.createdAt = res.before.createdAt
               /\ res.err = NoError
                    => acct = [res.before EXCEPT !.balance = acct.balance,
                                                !.updatedAt = acct.updatedAt]

\* a withdrawal succeeded after the clock had moved: the balance and updatedAt
\* changed
C19_Witness ==
    /\ res.op = "withdraw"
    /\ res.err = NoError
    /\ acct.balance # res.before.balance
    /\ acct.updatedAt # res.before.updatedAt
    /\ acct.updatedAt > acct.createdAt

\* C20: complete() and fail() change only the status: the identifier, type,
\* amount, source reference, target reference, description and createdAt of a
\* Transaction are after each call what they were before it, hence after any
\* sequence of calls what they were at construction.
C20_OnlyStatusChanges ==
    tres.op \in {"complete", "fail"}
        => /\ txn.id = tres.before.id
           /\ txn.type = tres.before.type
           /\ txn.amount = tres.before.amount
           /\ txn.fromAccountId = tres.before.fromAccountId
           /\ txn.toAccountId = tres.before.toAccountId
           /\ txn.description = tres.before.description
           /\ txn.createdAt = tres.before.createdAt
           /\ txn = [tres.before EXCEPT !.status = txn.status]

\* fail() was called on a completed transfer after the clock had moved
C20_Witness ==
    /\ tres.op = "fail"
    /\ tres.before.status = COMPLETED
    /\ txn.status = FAILED
    /\ txn.type = TRANSFER
    /\ txn.toAccountId = "a2"
    /\ now > txn.createdAt

----------------------------------------------------------------------------
(* Further claims about Transaction and Account, under SpecTxn and         *)
(* SpecAccount                                                             *)

\* C21: complete() sets the status to COMPLETED and fail() sets it to FAILED
\* from any prior status, and each is idempotent: called on a Transaction it
\* was just called on, it leaves the Transaction as it is.
C21_SetsStatusFromAny ==
    /\ tres.op = "complete"
            => /\ txn.status = COMPLETED
               /\ tres.before.status = COMPLETED => txn = tres.before
    /\ tres.op = "fail"
            => /\ txn.status = FAILED
               /\ tres.before.status = FAILED => txn = tres.before

\* complete() was called on a FAILED Transaction, which is now COMPLETED
C21_Witness ==
    /\ tres.op = "complete"
    /\ tres.before.status = FAILED
    /\ txn.status = COMPLETED

\* C22: every successful deposit strictly increases the account's updatedAt:
\* the value after the call is strictly later than the value before it.
C22_UpdatedAtIncreases ==
    (res.op = "deposit" /\ res.err = NoError)
        => acct.updatedAt > res.before.updatedAt

\* C23: a Transaction constructed without an explicit status is PENDING and
\* holds exactly the type, amount, source reference, target reference and
\* description it was given.
C23_StartsPending ==
    (tres.op = "new" /\ tres.err = NoError /\ tres.args.status = Undefined)
        => /\ txn.status = PENDING
           /\ txn.type = tres.args.type
           /\ txn.amount = tres.args.amount
           /\ txn.fromAccountId = tres.args.fromAccountId
           /\ txn.toAccountId = tres.args.toAccountId
           /\ txn.description = tres.args.description

\* a transfer between two accounts was constructed with no status given
C23_Witness ==
    /\ tres.op = "new"
    /\ tres.err = NoError
    /\ tres.args.status = Undefined
    /\ txn.type = TRANSFER
    /\ txn.fromAccountId = "a1"
    /\ txn.toAccountId = "a2"
    /\ txn.status = PENDING

----------------------------------------------------------------------------
(* Further claims about the use cases run one at a time, under SpecLedger *)

\* C24: an account created with only a name has balance zero and an
\* identifier no account had before: the createAccount use case adds one
\* record, with balance zero and a new identifier, and leaves the records of
\* the other accounts as they were.
C24_CreatedEmptyAndNew ==
    ures.op = "createAccount"
        => LET id == ures.objs[1].id
           IN  /\ ures.objs[1].balance = Zero
               /\ id # ""
               /\ WithUuid(ures.accountsBefore, id) = {}
               /\ ures.err = NoError
                    => /\ Cardinality(WithUuid(accounts, id)) = 1
                       /\ StoredBalance(accounts, id) = Zero
                       /\ accounts \ WithUuid(accounts, id) = ures.accountsBefore

\* a second account was created while the first held money
C24_Witness ==
    /\ ures.op = "createAccount"
    /\ ures.err = NoError
    /\ \E d \in ures.accountsBefore : Gt(d.balance, Zero)
    /\ Cardinality(accounts) = 2

----------------------------------------------------------------------------
(* Claims about use cases in progress at once, under SpecConcurrent *)

\* the transaction collection holds p's Transaction as COMPLETED
StoredCompleted(p) ==
    \E d \in transactions :
        /\ d.uuid = ProcUuid(p)
        /\ d.status = COMPLETED
        /\ d.amount = Money(procs[p].raw)

\* p and q are withdraw use cases on one account that have both returned,
\* each having loaded the account before the other saved it
OverlappingWithdrawals(p, q) ==
    /\ p # q
    /\ procs[p].op = "withdraw" /\ procs[q].op = "withdraw"
    /\ procs[p].from = procs[q].from
    /\ procs[p].pc = "done" /\ procs[q].pc = "done"
    /\ procs[p].err = NoError /\ procs[q].err = NoError
    /\ q \notin procs[p].after /\ p \notin procs[q].after

\* C25: two withdraw use cases on one account that each load the account
\* before the other saves it both pass the funds check against the balance
\* they loaded and both complete, whatever the sum of their amounts; the
\* balance stored afterwards is the loaded balance less the amount of one of
\* them only (the update of the other is lost).
C25_LostUpdate ==
    \A p \in Procs, q \in Procs :
        OverlappingWithdrawals(p, q)
            => LET b == procs[p].loaded[1].balance
                   ap == Money(procs[p].raw)
                   aq == Money(procs[q].raw)
               IN  /\ procs[q].loaded[1].balance = b
                   /\ Le(ap, b) /\ Le(aq, b)
                   /\ StoredBalance(accounts, procs[p].from)
                        \in {Minus(b, ap), Minus(b, aq)}
                   /\ StoredCompleted(p)
                   /\ StoredCompleted(q)

\* two such withdrawals have completed whose amounts together exceed the
\* balance both loaded
C25_Witness ==
    \E p \in Procs, q \in Procs :
        /\ OverlappingWithdrawals(p, q)
        /\ Gt(Plus(Money(procs[p].raw), Money(procs[q].raw)),
              procs[p].loaded[1].balance)
        /\ StoredCompleted(p)
        /\ StoredCompleted(q)
        /\ Ge(StoredBalance(accounts, procs[p].from), Zero)

\* p is a transfer use case whose execution ended between its two account
\* writes (it stopped, or the save of the target was rejected), no other
\* process having written an account
EndedBetweenWrites(p) ==
    /\ procs[p].op = "transfer"
    /\ procs[p].pc \in {"stopped", "done"}
    /\ procs[p].writes = <<"from">>
    /\ \A q \in Procs \ {p} : procs[q].writes = <<>>

\* C26: the transfer use case persists the two accounts as two separate
\* writes: when execution ends between them, the source is stored debited
\* and the target is stored as it was (not credited), the Transaction object
\* is already COMPLETED though no record of it is stored, and nothing rolls
\* the first write back.
C26_NoAtomicity ==
    \A p \in Procs :
        EndedBetweenWrites(p)
            => LET a == Money(procs[p].raw)
                   bf == procs[p].loaded[1].balance
                   bt == procs[p].loaded[2].balance
               IN  /\ Gt(a, Zero)
                   /\ StoredBalance(accounts, procs[p].from) = Minus(bf, a)
                   /\ StoredBalance(accounts, procs[p].to) = bt
                   /\ Plus(StoredBalance(accounts, procs[p].from),
                           StoredBalance(accounts, procs[p].to))
                        = Minus(Plus(bf, bt), a)
                   /\ procs[p].txn.status = COMPLETED
                   /\ \A d \in transactions : d.uuid # ProcUuid(p)

\* a transfer stopped after the source was written, with the other process
\* idle
C26_Witness ==
    \E p \in Procs :
        /\ EndedBetweenWrites(p)
        /\ procs[p].pc = "stopped"
        /\ \A q \in Procs \ {p} : procs[q].pc = "idle"
        /\ Lt(StoredBalance(accounts, procs[p].from),
              procs[p].loaded[1].balance)

\* C27: in every reachable state, under every interleaving of concurrent
\* deposit, withdraw and transfer use cases at their await points, the
\* balance stored for each account is >= 0.
C27_StoredBalanceNonNegative ==
    \A d \in accounts : Ge(d.balance, Zero)

\* one use case had its save of a NaN balance rejected while the other
\* process has written an account
C27_Witness ==
    \E p \in Procs, q \in Procs :
        /\ p # q
        /\ procs[p].pc = "done"
        /\ procs[p].err = ErrValidation
        /\ procs[p].writes = <<>>
        /\ IsNaN(procs[p].objs[1].balance)
        /\ procs[q].writes # <<>>

\* the sum of the amounts of a set of transaction records
RECURSIVE SumAmounts(_)
SumAmounts(S) ==
    IF S = {} THEN Zero
    ELSE LET d == CHOOSE x \in S : TRUE
         IN  Plus(d.amount, SumAmounts(S \ {d}))

\* the stored COMPLETED transactions into and out of an account
CompletedInto(txns, id) ==
    {d \in txns : d.status = COMPLETED /\ d.toAccountId = id}

CompletedOutOf(txns, id) ==
    {d \in txns : d.status = COMPLETED /\ d.fromAccountId = id}

\* every stored balance is what the stored COMPLETED transactions add up to
BalancesMatchTransactions(accs, txns) ==
    \A a \in accs :
        a.balance = Minus(SumAmounts(CompletedInto(txns, a.uuid)),
                          SumAmounts(CompletedOutOf(txns, a.uuid)))

\* C28: when use cases run one at a time and no save throws, after any
\* sequence of createAccount, deposit, withdraw and transfer use cases each
\* account's stored balance equals the sum of the amounts of the stored
\* COMPLETED transactions whose target is that account minus the sum of those
\* whose source is that account.  Stated as the step that carries it: the
\* collections start empty, and a use case in which no save threw takes
\* matching collections to matching collections.
C28_BalanceIsNetOfCompleted ==
    [][(/\ BalancesMatchTransactions(accounts, transactions)
        /\ ures'.err # ErrValidation)
            => BalancesMatchTransactions(accounts', transactions')]_vars

\* a deposit and a transfer are stored COMPLETED, both accounts hold money
\* and the balances match the transactions
C28_Witness ==
    /\ BalancesMatchTransactions(accounts, transactions)
    /\ \E d \in transactions : d.type = DEPOSIT /\ d.status = COMPLETED
    /\ \E d \in transactions : d.type = TRANSFER /\ d.status = COMPLETED
    /\ Cardinality({a \in accounts : Gt(a.balance, Zero)}) = 2

\* the saves of a use case, in the order of its code
WriteOrder(op) ==
    IF op = "transfer" THEN <<"from", "to", "txn">> ELSE <<"account", "txn">>

IsPrefix(s, t) == Len(s) <= Len(t) /\ s = SubSeq(t, 1, Len(s))

\* the transaction record of process p's use case is stored
TxnStored(p) == \E d \in transactions : d.uuid = ProcUuid(p)

ShortOfFunds ==
    /\ sres.op \in {"withdraw", "transfer"}
    /\ Lt(sres.before[sres.from].balance, sres.amount)

\* C30: in AccountService, once the Transaction has been constructed the
\* amount is > 0 and the mutation step fails exactly when the operation is a
\* withdraw or transfer and the source balance is less than the amount: a
\* deposit's mutation step never fails, and after canWithdraw returned true
\* Account.withdraw and Account.deposit never raise, so a transfer never
\* debits the source without crediting the target in memory.
C30_FailsExactlyWhenShort ==
    sres.txn # NoTxn
        => /\ Gt(sres.amount, Zero)
           /\ (sres.cause # NoError) <=> ShortOfFunds
           /\ sres.op = "deposit" => sres.cause = NoError
           /\ sres.op = "transfer"
                => IF sres.cause # NoError
                   THEN /\ mem[sres.from] = sres.before[sres.from]
                        /\ mem[sres.to] = sres.before[sres.to]
                   ELSE /\ mem[sres.from].balance
                             = Minus(sres.before[sres.from].balance, sres.amount)
                        /\ mem[sres.to].balance
                             = Plus(sres.before[sres.to].balance, sres.amount)

====
